---- MODULE Spec2Model ----
(***************************************************************************)
(* Run orchestrator of restic-backup: the node script (unnamed/part_000),  *)
(* its earlier version (restic-backup.js) and the bash script              *)
(* (restic_backup.sh).  One run of a variant sequences the engine          *)
(* subprocesses, keeps the RunState in state.json between runs and decides *)
(* when maintenance (forget, prune, check) is due.                         *)
(***************************************************************************)
EXTENDS Integers, Sequences, FiniteSets, TLC

VARIABLES
    variant,      \* which script runs: "js" (part_000), "jsOld", "sh"
    config,       \* the loaded config: purgeAfterNthBackup, autoUpdate, beNice
    runs,         \* number of runs started so far
    now,          \* wall clock in hours; backupDate until the backup exits
    pc,           \* position of the orchestrator in the current run
    file,         \* content of ./state.json
    backupState,  \* the global backupState of the node scripts
    procs,        \* engine subprocesses started in this run, in start order
    notes,        \* notifications emitted in this run, in order
    signals,      \* INT/TERM signals delivered in this run
    ret,          \* bash: the wait the trap interrupted
    opStatus,     \* bash: OPERATION_STATUS
    h,            \* observations of the current run
    x,            \* observations carried across runs
    peers         \* two node processes started on the same state.json

vars == <<variant, config, runs, now, pc, file, backupState, procs, notes,
          signals, ret, opStatus, h, x, peers>>

----------------------------------------------------------------------------
(* Bounds *)
MaxRuns == 3
MaxThreshold == 3
MaxSignals == 2

(* Program constants *)
updateCheckInterval == 1440
\* hours between two runs: within a day, more than a day but less than the
\* interval, a whole interval
Gaps == {1, 25, updateCheckInterval}
\* hours the backup subprocess takes
BackupHours == 1

\* keep counts <<hourly, daily, weekly, monthly, yearly>>: the retention
\* policy of config.json, and the one restic_backup.sh sets
Retentions == {<<0, 7, 4, 0, 0>>}
ShRetention == <<48, 14, 16, 18, 3>>

----------------------------------------------------------------------------
(* JavaScript values of the counter field *)
JsNum(n) == [t |-> "number", v |-> n]
JsUndef == [t |-> "undefined", v |-> 0]
JsNaN == [t |-> "NaN", v |-> 0]
JsNull == [t |-> "null", v |-> 0]

\* a counter that gains two per backup
JsPlus2(c) ==
    CASE c.t = "number" -> JsNum(c.v + 2)
      [] c.t = "null" -> JsNum(2)
      [] OTHER -> JsNaN

\* x + 1
JsPlus1(c) ==
    CASE c.t = "number" -> JsNum(c.v + 1)
      [] c.t = "null" -> JsNum(1)
      [] OTHER -> JsNaN

\* x >= n, for a number n
JsGE(c, n) ==
    CASE c.t = "number" -> c.v >= n
      [] c.t = "null" -> 0 >= n
      [] OTHER -> FALSE

\* a timestamp field that is absent from the object
Missing == -1

\* JSON.stringify of a counter followed by JSON.parse
JsonCnt(c) == IF c.t = "NaN" THEN JsNull ELSE c

NoFields(k) ==
    [kind |-> k, cnt |-> JsUndef, lkb |-> Missing, lkp |-> Missing,
     lkc |-> Missing, luc |-> Missing]

InitialFiles ==
    {NoFields(k) : k \in {"absent", "empty", "garbage", "null", "number", "object"}}

defaultState(t, v) ==
    [kind |-> "object", cnt |-> JsNum(0), lkb |-> 0, lkp |-> t, lkc |-> t,
     luc |-> IF v = "js" THEN t ELSE Missing]

\* JSON.parse(file), or the default state when it throws
ParseState(f, t, v) ==
    IF f.kind \in {"empty", "garbage", "absent"}
    THEN defaultState(t, v)
    ELSE [f EXCEPT !.cnt = JsonCnt(f.cnt)]

\* JSON.stringify(state) as written to the file
Stringify(s) == [s EXCEPT !.cnt = JsonCnt(s.cnt)]

\* fs.writeFileSync in updateState: a failed write is logged and swallowed
updateState(f, s, ok) == IF ok THEN Stringify(s) ELSE f

\* getBackupState: create the file when absent, else read and parse it
getBackupStateFile(f) == IF f.kind = "absent" THEN NoFields("empty") ELSE f
getBackupStateValue(f, t, v) == ParseState(f, t, v)

\* getConfig: the defaulting of the autoUpdate and beNice toggles
NormalizeToggle(raw) ==
    IF raw = Missing \/ (raw # 1 \/ raw # 0) THEN 1 ELSE raw

\* a gate that needs more than the threshold
MaintenanceDueStrict(c, thr) == JsGE(c, thr + 1)

\* the gate of main
MaintenanceDue(c, thr) == JsGE(c, thr)

\* execCmdWithStdout: resolved with the stderr flag, or rejected
execResolved(code) == code = 0
execHadNonfatalError(nErr) == nErr > 0

----------------------------------------------------------------------------
IsJs == variant \in {"js", "jsOld"}

\* the periods the scheduler can start the script with: only updateRestic of
\* unnamed/part_000 compares the clock with a time of an earlier run, the
\* other two scripts get one period
Periods == IF variant = "js" THEN Gaps ELSE {1}

\* hours since the run before
RunGaps == {config.period}

\* the keep counts on the command line of forget: config.retention in the
\* node scripts, the RETENTION_ variables in the bash script
ForgetArgs ==
    IF IsJs THEN config.retention ELSE ShRetention

\* a subprocess as cp.exec or `cmd &` starts it
NewProc(cmd) ==
    [cmd |-> cmd, st |-> "running", code |-> 0,
     args |-> IF cmd = "forget" THEN ForgetArgs
              ELSE IF cmd = "backup" /\ variant = "js" /\ config.beNice # 0
              THEN <<"nice">>
              ELSE <<>>]

Start(cmd) == Append(procs, NewProc(cmd))

\* the subprocess being awaited is the last one started
ExitLast(code) ==
    [procs EXCEPT ![Len(procs)] = [@ EXCEPT !.st = "exited", !.code = code]]

Started(cmd) == \E i \in 1..Len(procs) : procs[i].cmd = cmd
Alive(i) == procs[i].st # "exited"

FreshH ==
    [backupResult |-> "none", gate |-> "none", gateCnt |-> JsUndef,
     maint |-> "none", preMem |-> NoFields("none"), preFile |-> NoFields("none"),
     loaded |-> NoFields("none"), outcome |-> "running",
     sigMidBackup |-> FALSE, unlocksAfterSig |-> 0, lastWriteOk |-> TRUE,
     notifier |-> TRUE, binary |-> TRUE, cfgInvalid |-> FALSE, startedAt |-> 0,
     updateCheck |-> "none", backupWrite |-> "none", nErr |-> -1,
     reads |-> 0, maintWrites |-> 0, excludes |-> "none"]

\* the state before the first run, for the scripts vs, the values raws of
\* autoUpdate and beNice in config.json (Missing: the option is absent),
\* the thresholds thrs and the state files files
InitFor(vs, raws, thrs, files) ==
    /\ variant \in vs
    /\ \E thr \in thrs, rawU \in raws, rawN \in raws,
          keep \in (IF variant = "sh" THEN {ShRetention} ELSE Retentions),
          period \in Periods :
          config = [purgeAfterNthBackup |-> thr,
                    period |-> period,
                    retention |-> keep,
                    rawAutoUpdate |-> rawU,
                    rawBeNice |-> rawN,
                    autoUpdate |-> NormalizeToggle(rawU),
                    beNice |-> NormalizeToggle(rawN)]
    /\ runs = 0
    /\ now = 0
    /\ pc = "idle"
    /\ file \in (IF variant = "sh" THEN {NoFields("absent")} ELSE files)
    /\ backupState = NoFields("none")
    /\ procs = <<>>
    /\ notes = <<>>
    /\ signals = 0
    /\ ret = "none"
    /\ opStatus = 0
    /\ h = FreshH
    /\ x = [prevCnt |-> JsUndef, prevWriteOk |-> FALSE, prevValid |-> FALSE,
            fresh |-> file.kind = "absent",
            nOk |-> IF file.kind = "absent" THEN 0 ELSE -1,
            nSaved |-> IF file.kind = "absent" THEN 0 ELSE -1,
            retryDue |-> FALSE]

\* a process of unnamed/part_000 that has not called getBackupState yet
FreshPeer ==
    [pc |-> "getState", backupState |-> NoFields("none"), backup |-> "none",
     wrote |-> FALSE, maintained |-> FALSE]

\* no second process: the runs follow one another
NoPeers == [cnt0 |-> 0, proc |-> <<>>]

\* the values config.json can give a toggle
ToggleValues == {Missing, 0, 1}

\* all three scripts, with both toggles left out of config.json
Init ==
    /\ InitFor({"js", "jsOld", "sh"}, {Missing}, 1..MaxThreshold, InitialFiles)
    /\ peers = NoPeers

\* unnamed/part_000 with every value of both toggles, on a fresh state file
InitToggles ==
    /\ InitFor({"js"}, ToggleValues, {1}, {NoFields("absent")})
    /\ peers = NoPeers

----------------------------------------------------------------------------
(* The node scripts *)

\* config.json as getConfig finds it: whether it reads and parses, where the
\* password comes from, and of each required option whether it is a
\* non-empty string ("valid"; for the path lists: a non-empty array of
\* existing paths), absent from the file ("missing"), '' or [] ("empty"),
\* a value of another type ("wrongType": a non-zero number for the strings, a
\* non-empty string for the path lists) or a list naming a path that does
\* not exist ("notExisting")
ValidConfig ==
    [loads |-> TRUE, passwordFrom |-> "config",
     resticRepository |-> "valid", AWSAccessKeyID |-> "valid",
     AWSSecretAccessKey |-> "valid", resticPassword |-> "valid",
     includePaths |-> "valid", excludePaths |-> "valid"]

StringFaults == {"missing", "empty", "wrongType"}
PathFaults == {"missing", "empty", "wrongType", "notExisting"}

\* the valid file, every file with one fault, and one with two
ConfigFiles ==
    {ValidConfig, [ValidConfig EXCEPT !.loads = FALSE]}
      \cup {[ValidConfig EXCEPT !.passwordFrom = k] : k \in {"keychain", "keychainFails"}}
      \cup {[ValidConfig EXCEPT !.passwordFrom = "keychain", !.resticPassword = "missing"]}
      \cup {[ValidConfig EXCEPT !.resticRepository = k] : k \in StringFaults}
      \cup {[ValidConfig EXCEPT !.AWSAccessKeyID = k] : k \in StringFaults}
      \cup {[ValidConfig EXCEPT !.AWSSecretAccessKey = k] : k \in StringFaults}
      \cup {[ValidConfig EXCEPT !.resticPassword = k] : k \in StringFaults}
      \cup {[ValidConfig EXCEPT !.includePaths = k] : k \in PathFaults}
      \cup {[ValidConfig EXCEPT !.excludePaths = k] : k \in PathFaults \ {"empty"}}
      \cup {[ValidConfig EXCEPT !.resticRepository = "empty", !.includePaths = "missing"]}

\* the password after the passwordFrom switch
PasswordInUse(c) ==
    IF c.passwordFrom = "keychain" THEN "valid" ELSE c.resticPassword

\* a file the README calls unusable: it does not load, the keychain gives no
\* password, a required option is not a proper value, or a listed path does
\* not exist
ConfigInvalid(c) ==
    \/ ~c.loads
    \/ c.passwordFrom = "keychainFails"
    \/ \E k \in {c.resticRepository, c.AWSAccessKeyID, c.AWSSecretAccessKey,
                 PasswordInUse(c), c.includePaths} : k # "valid"
    \/ c.excludePaths = "notExisting"

\* `!typeof v == 'string' || v == ''`: typeof binds first, !'string' is
\* false and false == 'string' is false, so only v == '' is left
StringOptionError(k) == k = "empty"

\* `!typeof v == 'array' || !v.length > 0`: (!v.length) > 0 holds for length 0
PathsOptionError(k) == k = "empty"

\* reading .length of undefined, or calling .map on a string, throws
PathsThrow(k) == k \in {"missing", "wrongType"}

\* getConfig: "ok" when it returns the config, "exit1" when it calls
\* process.exit(1), "rejected" when it throws
getConfig(c) ==
    IF ~c.loads THEN "exit1"
    ELSE IF c.passwordFrom = "keychainFails" THEN "exit1"
    ELSE IF c.includePaths = "missing" THEN "rejected"
    ELSE IF \/ StringOptionError(c.resticRepository)
            \/ StringOptionError(c.AWSAccessKeyID)
            \/ StringOptionError(c.AWSSecretAccessKey)
            \/ StringOptionError(PasswordInUse(c))
            \/ PathsOptionError(c.includePaths) THEN "exit1"
    ELSE IF PathsThrow(c.includePaths) \/ PathsThrow(c.excludePaths) THEN "rejected"
    ELSE IF "notExisting" \in {c.includePaths, c.excludePaths} THEN "exit1"
    ELSE "ok"

\* what the process finds when it starts: the optional modules, the restic
\* binary in /usr/local/bin or in the current directory, config.json
ValidStart ==
    [notifier |-> TRUE, plist |-> TRUE, inUsrLocal |-> TRUE, inCwd |-> FALSE,
     cfg |-> ValidConfig]

StartConditions ==
    {[ValidStart EXCEPT !.cfg = c] : c \in ConfigFiles}
      \cup {[ValidStart EXCEPT !.notifier = FALSE], [ValidStart EXCEPT !.plist = FALSE]}
      \cup {[ValidStart EXCEPT !.inUsrLocal = a, !.inCwd = b] : a, b \in BOOLEAN}

\* the require calls at the top of the script. unnamed/part_000 wraps the two
\* optional modules in try/catch, but the first catch block calls logger,
\* which reads backupLogfile before its const declaration has run, and the
\* second one reads e.code where the parameter is named err: both throw a
\* ReferenceError. restic-backup.js requires both modules unguarded.
modulesLoad(e) == e.notifier /\ e.plist

\* a script that goes on to getConfig without having found the binary
startScriptBinaryUnchecked(e) ==
    LET found == e.inUsrLocal \/ e.inCwd
        r == [notifier |-> e.notifier, binary |-> found,
              cfgInvalid |-> ConfigInvalid(e.cfg)]
    IN  IF ~modulesLoad(e)
        THEN r @@ [outcome |-> "crashed", notified |-> FALSE]
        ELSE IF getConfig(e.cfg) = "exit1"
        THEN r @@ [outcome |-> "exit1", notified |-> TRUE]
        ELSE IF getConfig(e.cfg) = "rejected"
        THEN r @@ [outcome |-> "rejected", notified |-> FALSE]
        ELSE r @@ [outcome |-> "running", notified |-> FALSE]

\* the script from its first line to the return of getConfig in main: how
\* it ends there ("running" when it goes on), and whether maybe_notify was
\* called on the way
startScript(e) ==
    LET found == e.inUsrLocal \/ e.inCwd
        r == [notifier |-> e.notifier, binary |-> found,
              cfgInvalid |-> ConfigInvalid(e.cfg)]
    IN  IF ~modulesLoad(e)
        THEN r @@ [outcome |-> "crashed", notified |-> FALSE]
        ELSE IF ~found \/ getConfig(e.cfg) = "exit1"
        THEN r @@ [outcome |-> "exit1", notified |-> TRUE]
        ELSE IF getConfig(e.cfg) = "rejected"
        THEN r @@ [outcome |-> "rejected", notified |-> FALSE]
        ELSE r @@ [outcome |-> "running", notified |-> FALSE]

\* the process starts: the modules, then the search for the restic binary at
\* module level, then main calls getConfig
StartRun ==
    /\ pc = "idle"
    /\ runs < MaxRuns
    /\ IsJs
    /\ runs' = runs + 1
    /\ \E g \in RunGaps : now' = now + g
    /\ \E r \in {startScript(e) : e \in StartConditions} :
         /\ pc' = IF r.outcome = "running" THEN "getState" ELSE "done"
         /\ notes' = IF r.notified THEN <<"configuration_error">> ELSE <<>>
         /\ h' = [FreshH EXCEPT !.notifier = r.notifier,
                                 !.binary = r.binary,
                                 !.cfgInvalid = r.cfgInvalid,
                                 !.outcome = r.outcome,
                                 !.startedAt = now']
    /\ procs' = <<>>
    /\ signals' = 0
    /\ backupState' = NoFields("none")
    /\ UNCHANGED <<peers, variant, config, file, ret, opStatus, x>>

\* backupState = getBackupState(); when the file is absent and cannot be
\* created either, readFileSync throws outside the inner try and main rejects
GetBackupState ==
    /\ pc = "getState"
    /\ \E creatable \in BOOLEAN :
         IF file.kind = "absent" /\ ~creatable
         THEN /\ pc' = "done"
              /\ h' = [h EXCEPT !.outcome = "rejected"]
              /\ UNCHANGED <<file, backupState>>
         ELSE /\ file' = getBackupStateFile(file)
              /\ backupState' = getBackupStateValue(file, now, variant)
              /\ h' = [h EXCEPT !.loaded = backupState', !.reads = @ + 1]
              /\ pc' = IF variant = "js" THEN "update" ELSE "version"
    /\ UNCHANGED <<peers, variant, config, runs, now, procs, notes, signals, ret,
                   opStatus, x>>

\* await updateRestic(config.autoUpdate, backupState.lastUpdateCheck)
UpdateRestic ==
    /\ pc = "update"
    /\ IF backupState.kind = "null"
       THEN \* reading a property of null throws; main rejects
            /\ pc' = "done"
            /\ h' = [h EXCEPT !.outcome = "rejected"]
            /\ UNCHANGED <<file, backupState, notes>>
       ELSE IF config.autoUpdate = 0
                 \/ (backupState.luc # Missing
                       /\ now - backupState.luc < updateCheckInterval)
       THEN /\ pc' = "prepare"
            /\ h' = [h EXCEPT !.updateCheck = "skipped"]
            /\ UNCHANGED <<file, backupState, notes>>
       ELSE \E ok \in BOOLEAN, updated \in BOOLEAN :
            /\ backupState' = IF backupState.kind = "object"
                              THEN [backupState EXCEPT !.luc = now]
                              ELSE backupState
            /\ file' = updateState(file, backupState', ok)
            /\ h' = [h EXCEPT !.lastWriteOk = ok,
                              !.updateCheck = IF updated THEN "ok" ELSE "failed"]
            /\ notes' = IF updated THEN notes ELSE Append(notes, "update_failed")
            /\ pc' = "prepare"
    /\ UNCHANGED <<peers, variant, config, runs, now, procs, signals, ret, opStatus, x>>

\* restic-backup.js: await getInstalledVersion(); await getLatestVersion().
\* Both reject on an error and main awaits them outside any try block. The
\* timeout option of https.get only makes the request emit 'timeout', which
\* nothing listens to: with a server that does not answer, neither promise
\* of getLatestVersion settles.
VersionCheck ==
    /\ pc = "version"
    /\ \E answer \in {"ok", "error", "noResponse"}, newer \in BOOLEAN :
         CASE answer = "ok" ->
                /\ pc' = "prepare"
                /\ notes' = IF newer THEN Append(notes, "update_available") ELSE notes
                /\ h' = [h EXCEPT !.updateCheck = "ok"]
           [] answer = "error" ->
                /\ pc' = "done"
                /\ h' = [h EXCEPT !.outcome = "rejected", !.updateCheck = "failed"]
                /\ notes' = notes
           [] answer = "noResponse" ->
                /\ pc' = "hung"
                /\ h' = [h EXCEPT !.updateCheck = "noResponse"]
                /\ notes' = notes
    /\ UNCHANGED <<peers, variant, config, runs, now, file, backupState, procs,
                   signals, ret, opStatus, x>>

\* main: build the command line and start the backup subprocess
StartBackup ==
    /\ pc = "prepare"
    /\ \E excludes \in {"array", "undefined"} :
         IF excludes = "undefined"
         THEN \* platformExcludes.length throws inside the try block
              /\ notes' = Append(notes, "backup_failed")
              /\ pc' = "done"
              /\ h' = [h EXCEPT !.outcome = "failed", !.excludes = excludes]
              /\ procs' = procs
         ELSE /\ procs' = Start("backup")
              /\ pc' = "backup"
              /\ h' = [h EXCEPT !.excludes = excludes]
              /\ notes' = notes
    /\ UNCHANGED <<peers, variant, config, runs, now, file, backupState, signals,
                   ret, opStatus, x>>

\* a catch block without its return: the run goes on to maintenance
BackupFailedFallsThrough(code) ==
    /\ procs' = Append(ExitLast(code),
                  NewProc("forget"))
    /\ notes' = Append(notes, "backup_failed")
    /\ pc' = "forget"
    /\ h' = [h EXCEPT !.backupResult = "fail"]
    /\ UNCHANGED <<file, backupState>>

\* catch (e) of main: notify, log, return
BackupFailed(code) ==
    /\ procs' = ExitLast(code)
    /\ notes' = Append(notes, "backup_failed")
    /\ pc' = "done"
    /\ h' = [h EXCEPT !.backupResult = "fail", !.outcome = "failed"]
    /\ UNCHANGED <<file, backupState>>

\* an updateState whose failure is thrown into the catch block of main
BackupSucceededWriteFatal(nErr, ok) ==
    IF backupState.kind = "null" \/ ~ok
    THEN /\ procs' = ExitLast(0)
         /\ notes' = Append(notes, "backup_failed")
         /\ pc' = "done"
         /\ h' = [h EXCEPT !.backupResult = "ok", !.outcome = "failed",
                           !.backupWrite = IF backupState.kind = "null"
                                           THEN "none" ELSE "failed",
                           !.nErr = nErr]
         /\ UNCHANGED <<file, backupState>>
    ELSE LET s == IF backupState.kind = "object"
                  THEN [backupState EXCEPT !.lkb = now, !.cnt = JsPlus1(@)]
                  ELSE backupState
             f == updateState(file, s, ok)
             n1 == Append(notes, IF execHadNonfatalError(nErr)
                                 THEN "backup_warnings" ELSE "backup_ok")
             due == MaintenanceDue(s.cnt, config.purgeAfterNthBackup)
         IN  /\ backupState' = s
             /\ file' = f
             /\ notes' = IF due THEN Append(n1, "maintenance_start") ELSE n1
             /\ procs' = IF due THEN Append(ExitLast(0), NewProc("forget"))
                         ELSE ExitLast(0)
             /\ pc' = IF due THEN "forget" ELSE "done"
             /\ h' = [h EXCEPT !.backupResult = "ok",
                               !.gate = IF due THEN "entered" ELSE "skipped",
                               !.gateCnt = s.cnt,
                               !.maint = IF due THEN "running" ELSE "none",
                               !.preMem = s, !.preFile = f,
                               !.lastWriteOk = ok,
                               !.backupWrite = "ok",
                               !.nErr = nErr,
                               !.outcome = IF due THEN "running" ELSE "finished"]

\* the try block of main after the backup resolved, and the gate after it
BackupSucceeded(nErr, ok) ==
    IF backupState.kind = "null"
    THEN \* assigning a property of null throws: the catch block runs
         /\ procs' = ExitLast(0)
         /\ notes' = Append(notes, "backup_failed")
         /\ pc' = "done"
         /\ h' = [h EXCEPT !.backupResult = "ok", !.outcome = "failed",
                           !.nErr = nErr]
         /\ UNCHANGED <<file, backupState>>
    ELSE LET s == IF backupState.kind = "object"
                  THEN [backupState EXCEPT !.lkb = now, !.cnt = JsPlus1(@)]
                  ELSE backupState
             f == updateState(file, s, ok)
             n1 == Append(notes, IF execHadNonfatalError(nErr)
                                 THEN "backup_warnings" ELSE "backup_ok")
             due == MaintenanceDue(s.cnt, config.purgeAfterNthBackup)
         IN  /\ backupState' = s
             /\ file' = f
             /\ notes' = IF due THEN Append(n1, "maintenance_start") ELSE n1
             /\ procs' = IF due THEN Append(ExitLast(0),
                                       NewProc("forget"))
                         ELSE ExitLast(0)
             /\ pc' = IF due THEN "forget" ELSE "done"
             /\ h' = [h EXCEPT !.backupResult = "ok",
                               !.gate = IF due THEN "entered" ELSE "skipped",
                               !.gateCnt = s.cnt,
                               !.maint = IF due THEN "running" ELSE "none",
                               !.preMem = s, !.preFile = f,
                               !.lastWriteOk = ok,
                               !.backupWrite = IF ok THEN "ok" ELSE "failed",
                               !.nErr = nErr,
                               !.outcome = IF due THEN "running" ELSE "finished"]

\* a main that stamps lastKnownBackup whether or not the backup resolved
BackupExitStampsFailure ==
    /\ pc = "backup"
    /\ \E code \in {0, 1}, nErr \in {0, 1}, ok \in BOOLEAN :
         IF execResolved(code) THEN BackupSucceeded(nErr, ok)
         ELSE /\ procs' = ExitLast(code)
              /\ notes' = Append(notes, "backup_failed")
              /\ pc' = "done"
              /\ h' = [h EXCEPT !.backupResult = "fail", !.outcome = "failed"]
              /\ backupState' = IF backupState.kind = "object"
                                THEN [backupState EXCEPT !.lkb = now]
                                ELSE backupState
              /\ file' = file
    /\ now' = now + BackupHours
    /\ UNCHANGED <<peers, variant, config, runs, signals, ret, opStatus, x>>

\* the backup subprocess exits, some time after backupDate
BackupExit ==
    /\ pc = "backup"
    /\ \E code \in {0, 1}, nErr \in {0, 1}, ok \in BOOLEAN :
         IF execResolved(code) THEN BackupSucceeded(nErr, ok) ELSE BackupFailed(code)
    /\ now' = now + BackupHours
    /\ UNCHANGED <<peers, variant, config, runs, signals, ret, opStatus, x>>

\* the ways maintenance ends without success
MaintenanceFailures == {"failedForget", "failedPrune", "failedCheck"}

\* a .catch that also resets the counter and writes the state
MaintenanceFailedResets(code, step) ==
    LET s == [backupState EXCEPT !.cnt = JsNum(0)]
    IN  /\ procs' = ExitLast(code)
        /\ notes' = Append(notes, "maintenance_failed")
        /\ pc' = "done"
        /\ h' = [h EXCEPT !.maint = step, !.outcome = "finished"]
        /\ backupState' = s
        /\ file' = updateState(file, s, TRUE)

\* .catch of runPruneAndCheck, and the empty catch of main
MaintenanceFailed(code, step) ==
    /\ procs' = ExitLast(code)
    /\ notes' = Append(notes, "maintenance_failed")
    /\ pc' = "done"
    /\ h' = [h EXCEPT !.maint = step, !.outcome = "finished"]
    /\ UNCHANGED <<file, backupState>>

\* forget exits: the first .then starts prune
ForgetExit ==
    /\ pc = "forget"
    /\ \E code \in {0, 1} :
         IF code = 0
         THEN /\ procs' = Append(ExitLast(0),
                            NewProc("prune"))
              /\ pc' = "prune"
              /\ UNCHANGED <<file, backupState, notes, h>>
         ELSE MaintenanceFailed(code, "failedForget")
    /\ UNCHANGED <<peers, variant, config, runs, now, signals, ret, opStatus, x>>

\* a second .then that already resets the counter
PruneSucceededResets(ok) ==
    LET s == [backupState EXCEPT !.lkp = now, !.cnt = JsNum(0)]
    IN  /\ backupState' = s
        /\ file' = updateState(file, s, ok)
        /\ procs' = Append(ExitLast(0),
                      NewProc("check"))
        /\ pc' = "check"
        /\ h' = [h EXCEPT !.lastWriteOk = ok,
                          !.maintWrites = IF ok THEN @ + 1 ELSE @]
        /\ notes' = notes

\* the second .then: record the purge, write the state, start check
PruneSucceeded(ok) ==
    LET s == [backupState EXCEPT !.lkp = now]
    IN  /\ backupState' = s
        /\ file' = updateState(file, s, ok)
        /\ procs' = Append(ExitLast(0),
                      NewProc("check"))
        /\ pc' = "check"
        /\ h' = [h EXCEPT !.lastWriteOk = ok,
                          !.maintWrites = IF ok THEN @ + 1 ELSE @]
        /\ notes' = notes

PruneExit ==
    /\ pc = "prune"
    /\ \E code \in {0, 1}, ok \in BOOLEAN :
         IF execResolved(code)
         THEN PruneSucceeded(ok)
         ELSE MaintenanceFailed(code, "failedPrune")
    /\ UNCHANGED <<peers, variant, config, runs, now, signals, ret, opStatus, x>>

\* a third .then that leaves the counter as it is
CheckSucceededKeepsCounter(ok) ==
    LET s == [backupState EXCEPT !.lkc = now]
    IN  /\ backupState' = s
        /\ file' = updateState(file, s, ok)
        /\ procs' = ExitLast(0)
        /\ notes' = Append(notes, "maintenance_ok")
        /\ pc' = "done"
        /\ h' = [h EXCEPT !.maint = "ok", !.outcome = "finished",
                          !.lastWriteOk = ok,
                          !.maintWrites = IF ok THEN @ + 1 ELSE @]

\* the third .then: notify, record the check, reset the counter, write
CheckSucceeded(ok) ==
    LET s == [backupState EXCEPT !.lkc = now, !.cnt = JsNum(0)]
    IN  /\ backupState' = s
        /\ file' = updateState(file, s, ok)
        /\ procs' = ExitLast(0)
        /\ notes' = Append(notes, "maintenance_ok")
        /\ pc' = "done"
        /\ h' = [h EXCEPT !.maint = "ok", !.outcome = "finished",
                          !.lastWriteOk = ok,
                          !.maintWrites = IF ok THEN @ + 1 ELSE @]

CheckExit ==
    /\ pc = "check"
    /\ \E code \in {0, 1}, ok \in BOOLEAN :
         IF execResolved(code)
         THEN CheckSucceeded(ok)
         ELSE MaintenanceFailed(code, "failedCheck")
    /\ UNCHANGED <<peers, variant, config, runs, now, signals, ret, opStatus, x>>

\* INT or TERM reaches the node process: no handler is installed, the
\* process ends at once and its child is left to itself
JsSignal ==
    /\ IsJs
    /\ pc \in {"getState", "update", "version", "hung", "prepare", "backup",
               "forget", "prune", "check"}
    /\ signals < MaxSignals
    /\ signals' = signals + 1
    /\ pc' = "done"
    /\ h' = [h EXCEPT !.outcome = "killed",
                      !.sigMidBackup = (pc = "backup")]
    /\ UNCHANGED <<peers, variant, config, runs, now, file, backupState, procs,
                   notes, ret, opStatus, x>>

----------------------------------------------------------------------------
(* The bash script *)

ShWaits == {"sh_wait_unlock", "sh_wait_backup", "sh_wait_forget", "sh_wait_prune"}

\* the status wait returns when a trapped signal interrupts it
Interrupted == 143

CountUnlock(hh) ==
    IF hh.sigMidBackup THEN [hh EXCEPT !.unlocksAfterSig = @ + 1] ELSE hh

\* the script starts: the checks of the exported variables (exit 1 when one
\* is empty), then `restic unlock &`
ShStart ==
    /\ pc = "idle"
    /\ runs < MaxRuns
    /\ variant = "sh"
    /\ runs' = runs + 1
    /\ \E g \in RunGaps : now' = now + g
    /\ \E exported \in BOOLEAN, hasNotifier \in BOOLEAN :
         LET hh == [FreshH EXCEPT !.notifier = hasNotifier,
                                   !.cfgInvalid = ~exported,
                                   !.startedAt = now']
         IN  IF exported
             THEN /\ procs' = <<NewProc("unlock")>>
                  /\ pc' = "sh_wait_unlock"
                  /\ notes' = <<>>
                  /\ h' = hh
             ELSE /\ procs' = <<>>
                  /\ pc' = "done"
                  /\ notes' = <<"configuration_error">>
                  /\ h' = [hh EXCEPT !.outcome = "exit1"]
    /\ signals' = 0
    /\ ret' = "none"
    /\ opStatus' = 0
    /\ UNCHANGED <<peers, variant, config, file, backupState, x>>

\* after `wait $!` of unlock: `restic backup ... &`
ShAfterUnlock(p) ==
    /\ procs' = Append(p, NewProc("backup"))
    /\ pc' = "sh_wait_backup"
    /\ UNCHANGED <<notes, opStatus>>
    /\ h' = h

\* OPERATION_STATUS=$?, the notification, the bail out, `restic forget ... &`
ShAfterBackup(p, status) ==
    /\ opStatus' = status
    /\ IF status = 0
       THEN /\ notes' = Append(notes, "backup_ok")
            /\ procs' = Append(p, NewProc("forget"))
            /\ pc' = "sh_wait_forget"
            /\ h' = [h EXCEPT !.backupResult = "ok", !.gate = "entered",
                              !.maint = "running"]
       ELSE /\ notes' = Append(notes, "backup_failed")
            /\ procs' = p
            /\ pc' = "done"
            /\ h' = [h EXCEPT !.backupResult = "fail", !.outcome = "exit1"]

\* a script that does not log the status of forget
ShAfterForgetDropsStatus(p, status) ==
    /\ opStatus' = opStatus
    /\ procs' = Append(p, NewProc("prune"))
    /\ pc' = "sh_wait_prune"
    /\ notes' = notes
    /\ h' = IF status = 0 THEN h ELSE [h EXCEPT !.maint = "failedForget"]

\* OPERATION_STATUS=$? of forget, `restic prune &`
ShAfterForget(p, status) ==
    /\ opStatus' = status
    /\ procs' = Append(p, NewProc("prune"))
    /\ pc' = "sh_wait_prune"
    /\ notes' = notes
    /\ h' = IF status = 0 THEN h ELSE [h EXCEPT !.maint = "failedForget"]

\* a test that looks at the status of prune alone
ShAfterPruneIgnoresForget(p, status) ==
    /\ procs' = p
    /\ notes' = Append(notes, IF status = 0
                              THEN "maintenance_ok" ELSE "maintenance_failed")
    /\ pc' = "done"
    /\ opStatus' = opStatus
    /\ h' = [h EXCEPT !.outcome = "exit0",
                      !.maint = IF h.maint = "failedForget" THEN "failedForget"
                                ELSE IF status = 0 THEN "ok" ELSE "failedPrune"]

\* the test of both statuses and the maintenance notification
ShAfterPrune(p, status) ==
    /\ procs' = p
    /\ notes' = Append(notes, IF opStatus = 0 /\ status = 0
                              THEN "maintenance_ok" ELSE "maintenance_failed")
    /\ pc' = "done"
    /\ opStatus' = opStatus
    /\ h' = [h EXCEPT !.outcome = "exit0",
                      !.maint = IF h.maint = "failedForget" THEN "failedForget"
                                ELSE IF status = 0 THEN "ok" ELSE "failedPrune"]

ShResume(at, p, status) ==
    CASE at = "sh_wait_unlock" -> ShAfterUnlock(p)
      [] at = "sh_wait_backup" -> ShAfterBackup(p, status)
      [] at = "sh_wait_forget" -> ShAfterForget(p, status)
      [] at = "sh_wait_prune" -> ShAfterPrune(p, status)

\* the awaited background job exits and `wait $!` returns its status
ShWait ==
    /\ pc \in ShWaits
    /\ \E code \in {0, 1} : ShResume(pc, ExitLast(code), code)
    /\ UNCHANGED <<peers, variant, config, runs, now, file, backupState, signals,
                   ret, x>>

\* INT or TERM during a wait (bash runs the trap at once there; during a
\* foreground command it defers it): exit_hook signals the jobs and runs
\* `restic unlock` in the foreground
ShSignal ==
    /\ pc \in ShWaits
    /\ signals < MaxSignals
    /\ signals' = signals + 1
    /\ ret' = pc
    /\ pc' = "sh_hook"
    /\ procs' = Append([i \in 1..Len(procs) |->
                          IF procs[i].st = "running"
                          THEN [procs[i] EXCEPT !.st = "killed"] ELSE procs[i]],
                       NewProc("unlock"))
    /\ h' = CountUnlock([h EXCEPT !.sigMidBackup = @ \/ (pc = "sh_wait_backup")])
    /\ UNCHANGED <<peers, variant, config, runs, now, file, backupState, notes,
                   opStatus, x>>

\* the unlock of exit_hook exits; the interrupted wait returns
ShHookDone ==
    /\ pc = "sh_hook"
    /\ \E code \in {0, 1} : ShResume(ret, ExitLast(code), Interrupted)
    /\ ret' = "none"
    /\ UNCHANGED <<peers, variant, config, runs, now, file, backupState, signals, x>>

\* a job that exit_hook signalled exits
ProcExit ==
    /\ variant = "sh"
    /\ \E i \in 1..Len(procs) :
         /\ procs[i].st = "killed"
         /\ procs' = [procs EXCEPT ![i] = [@ EXCEPT !.st = "exited",
                                                   !.code = Interrupted]]
    /\ UNCHANGED <<peers, variant, config, runs, now, pc, file, backupState, notes,
                   signals, ret, opStatus, h, x>>

----------------------------------------------------------------------------
\* the process has ended; the next scheduled run may start
EndRun ==
    /\ pc = "done"
    /\ pc' = "idle"
    /\ x' = [prevCnt |-> backupState.cnt,
             prevValid |-> IsJs /\ backupState.kind = "object",
             prevWriteOk |-> h.lastWriteOk,
             fresh |-> x.fresh,
             nOk |-> IF x.nOk >= 0 /\ h.backupResult = "ok" /\ h.gate = "skipped"
                     THEN x.nOk + 1 ELSE -1,
             nSaved |-> IF x.nSaved >= 0 /\ h.backupResult = "ok"
                           /\ h.gate = "skipped" /\ h.lastWriteOk
                        THEN x.nSaved + 1 ELSE -1,
             retryDue |-> IF h.maint \in MaintenanceFailures THEN TRUE
                          ELSE IF h.backupResult = "ok" THEN FALSE
                          ELSE x.retryDue]
    /\ UNCHANGED <<peers, variant, config, runs, now, file, backupState, procs,
                   notes, signals, ret, opStatus, h>>

Next ==
    \/ StartRun
    \/ GetBackupState
    \/ UpdateRestic
    \/ VersionCheck
    \/ StartBackup
    \/ BackupExit
    \/ ForgetExit
    \/ PruneExit
    \/ CheckExit
    \/ JsSignal
    \/ ShStart
    \/ ShWait
    \/ ShSignal
    \/ ShHookDone
    \/ ProcExit
    \/ EndRun

Spec == Init /\ [][Next]_vars

\* the steps of unnamed/part_000 alone
NextToggles ==
    \/ StartRun
    \/ GetBackupState
    \/ UpdateRestic
    \/ StartBackup
    \/ BackupExit
    \/ ForgetExit
    \/ PruneExit
    \/ CheckExit
    \/ JsSignal
    \/ EndRun

SpecToggles == InitToggles /\ [][NextToggles]_vars

TypeOK == pc \in {"idle", "getState", "update", "version", "prepare", "backup",
                  "forget", "prune", "check", "done", "sh_hook", "hung"}
                 \cup ShWaits

----------------------------------------------------------------------------
(* Two processes of unnamed/part_000 on one state.json.  Nothing in the    *)
(* script keeps a second process from starting while the first one runs:   *)
(* there is no lock file, and state.json is read once at the start and     *)
(* written whole by updateState.                                           *)

\* a state.json an earlier run has written, with counter c
WrittenState(c) == [defaultState(0, "js") EXCEPT !.cnt = JsNum(c)]

InitOverlap ==
    /\ InitFor({"js"}, {Missing}, 1..MaxThreshold,
               {WrittenState(c) : c \in 0..MaxThreshold})
    /\ peers = [cnt0 |-> file.cnt.v, proc |-> <<FreshPeer, FreshPeer>>]

PeerSet(p, q) == [peers EXCEPT !.proc[p] = q]

\* backupState = getBackupState() of process p; the update check that
\* follows is within its interval and skipped
PeerGetBackupState(p) ==
    /\ peers.proc[p].pc = "getState"
    /\ file' = getBackupStateFile(file)
    /\ peers' = PeerSet(p, [peers.proc[p] EXCEPT
                   !.backupState = getBackupStateValue(file, now, variant),
                   !.pc = "backup"])
    /\ UNCHANGED <<variant, config, runs, now, pc, backupState, procs, notes,
                   signals, ret, opStatus, h, x>>

\* the backup subprocess of process p exits: the try block of main, or its
\* catch block, and the gate
PeerBackupExit(p) ==
    /\ peers.proc[p].pc = "backup"
    /\ \E code \in {0, 1}, ok \in BOOLEAN :
         IF execResolved(code)
         THEN LET s == [peers.proc[p].backupState EXCEPT
                          !.lkb = now, !.cnt = JsPlus1(@)]
              IN  /\ file' = updateState(file, s, ok)
                  /\ peers' = PeerSet(p, [peers.proc[p] EXCEPT
                                 !.backupState = s, !.backup = "ok",
                                 !.wrote = ok,
                                 !.pc = IF MaintenanceDue(s.cnt,
                                             config.purgeAfterNthBackup)
                                        THEN "prune" ELSE "done"])
         ELSE /\ file' = file
              /\ peers' = PeerSet(p, [peers.proc[p] EXCEPT
                             !.backup = "fail", !.pc = "done"])
    /\ UNCHANGED <<variant, config, runs, now, pc, backupState, procs, notes,
                   signals, ret, opStatus, h, x>>

\* forget and prune of process p have run: the second .then, or the .catch
PeerPruneExit(p) ==
    /\ peers.proc[p].pc = "prune"
    /\ \E code \in {0, 1}, ok \in BOOLEAN :
         IF execResolved(code)
         THEN LET s == [peers.proc[p].backupState EXCEPT !.lkp = now]
              IN  /\ file' = updateState(file, s, ok)
                  /\ peers' = PeerSet(p, [peers.proc[p] EXCEPT
                                 !.backupState = s, !.pc = "check"])
         ELSE /\ file' = file
              /\ peers' = PeerSet(p, [peers.proc[p] EXCEPT !.pc = "done"])
    /\ UNCHANGED <<variant, config, runs, now, pc, backupState, procs, notes,
                   signals, ret, opStatus, h, x>>

\* check of process p has run: the third .then, or the .catch
PeerCheckExit(p) ==
    /\ peers.proc[p].pc = "check"
    /\ \E code \in {0, 1}, ok \in BOOLEAN :
         IF execResolved(code)
         THEN LET s == [peers.proc[p].backupState EXCEPT
                          !.lkc = now, !.cnt = JsNum(0)]
              IN  /\ file' = updateState(file, s, ok)
                  /\ peers' = PeerSet(p, [peers.proc[p] EXCEPT
                                 !.backupState = s, !.maintained = TRUE,
                                 !.pc = "done"])
         ELSE /\ file' = file
              /\ peers' = PeerSet(p, [peers.proc[p] EXCEPT !.pc = "done"])
    /\ UNCHANGED <<variant, config, runs, now, pc, backupState, procs, notes,
                   signals, ret, opStatus, h, x>>

NextOverlap ==
    \E p \in 1..2 :
        \/ PeerGetBackupState(p)
        \/ PeerBackupExit(p)
        \/ PeerPruneExit(p)
        \/ PeerCheckExit(p)

SpecOverlap == InitOverlap /\ [][NextOverlap]_vars

----------------------------------------------------------------------------
(* How the process ends *)

\* the exit codes a run that ended with outcome o can give. The node scripts
\* call process.exit only with 1, at the top of the script and in getConfig;
\* when main returns (after the gate, or from its catch block) the process
\* ends with 0. A rejection of main() is left unhandled by .finally: node
\* before version 15 warns and ends with 0, later versions end with 1. An
\* uncaught exception ends with 1, a signal without handler with 128 + 15.
exitCodes(o) ==
    CASE o \in {"finished", "failed", "exit0"} -> {0}
      [] o \in {"exit1", "crashed"} -> {1}
      [] o = "rejected" -> {0, 1}
      [] o = "killed" -> {Interrupted}
      [] OTHER -> {}

\* some maybe_notify call of the run carried message n
Notified(n) == \E i \in 1..Len(notes) : notes[i] = n

----------------------------------------------------------------------------
(* Properties *)

MaintenanceCmds == {"forget", "prune", "check"}
MaintenanceStarted == \E c \in MaintenanceCmds : Started(c)
Threshold == config.purgeAfterNthBackup

\* C1: in every run, if the backup subprocess fails, no forget, prune or
\* check subprocess is started in that run, whatever the counter and the
\* threshold are.
C1_FailedBackupNoMaintenance ==
    h.backupResult = "fail" => ~MaintenanceStarted

\* a node run whose backup failed although the incremented counter would
\* have passed the gate
C1_Witness ==
    /\ IsJs
    /\ pc = "done"
    /\ h.backupResult = "fail"
    /\ MaintenanceDue(JsPlus1(backupState.cnt), Threshold)

C3_NothingRecordedOnFailure ==
    (IsJs /\ h.maint \in {"failedForget", "failedPrune", "failedCheck"}) =>
        /\ backupState.cnt = h.preMem.cnt
        /\ backupState.lkp = h.preMem.lkp
        /\ backupState.lkc = h.preMem.lkc
        /\ file.cnt = h.preFile.cnt
        /\ file.lkp = h.preFile.lkp
        /\ file.lkc = h.preFile.lkc

C5_CounterEqualsRuns ==
    IsJs =>
        /\ (pc = "idle" /\ x.nOk >= 1) => backupState.cnt = JsNum(x.nOk)
        /\ (pc # "idle" /\ runs >= 2 /\ x.prevValid /\ h.loaded.kind # "none")
              => h.loaded.cnt = x.prevCnt

\* C5 amended: a successful backup increments a numeric counter by exactly
\* one and a failed backup does not change it; a run loads the value the
\* previous run ended with when that value is a number and the previous
\* run's last state write succeeded; so after N consecutive runs from a fresh
\* state, each with a successful backup, a successful state write and no
\* maintenance triggered, the counter in memory and in the file equals N.
C5_CounterEqualsSavedRuns ==
    IsJs =>
        /\ h.backupResult = "fail" => backupState.cnt = h.loaded.cnt
        /\ (h.backupResult = "ok" /\ h.loaded.kind = "object"
              /\ h.loaded.cnt.t = "number" /\ h.maint # "ok")
              => backupState.cnt = JsNum(h.loaded.cnt.v + 1)
        /\ (pc # "idle" /\ runs >= 2 /\ x.prevValid /\ x.prevWriteOk
              /\ x.prevCnt.t = "number" /\ h.loaded.kind # "none")
              => h.loaded.cnt = x.prevCnt
        /\ (pc = "idle" /\ x.nSaved >= 1)
              => (backupState.cnt = JsNum(x.nSaved) /\ file.cnt = JsNum(x.nSaved))

C5_Witness ==
    /\ IsJs
    /\ pc = "idle"
    /\ x.nSaved = 2
    /\ backupState.cnt = JsNum(2)

\* C6 as stated: whatever the state file holds, getBackupState returns a
\* usable RunState with a numeric counter, and the state file never keeps
\* the run from starting the backup subprocess.
C6_StateFileNeverBlocks ==
    IsJs =>
        /\ h.loaded.kind # "none"
              => (h.loaded.kind = "object" /\ h.loaded.cnt.t = "number")
        /\ (variant = "js" /\ h.outcome = "rejected") => Started("backup")

\* C7 as stated: a termination signal received while the backup subprocess
\* runs is followed by exactly one unlock call before the process exits.
C7_UnlockOnceOnSignal ==
    (pc = "done" /\ h.sigMidBackup) => h.unlocksAfterSig = 1

\* C8 as stated: the unlock of the signal handler is never started while a
\* backup, forget or prune subprocess of the run is still alive.
C8_UnlockAfterChildExit ==
    \A i, j \in 1..Len(procs) :
        (i < j /\ procs[j].cmd = "unlock" /\ procs[j].st = "running"
            /\ procs[i].cmd \in {"backup", "forget", "prune"})
        => ~Alive(i)

\* C9 as stated: prune is never started after a failed forget, and check is
\* never started after a failed prune or forget.
C9_FailureAbortsSequence ==
    \A i, j \in 1..Len(procs) :
        (i < j /\ procs[i].st # "running" /\ procs[i].code # 0) =>
            /\ procs[i].cmd = "forget" => procs[j].cmd \notin {"prune", "check"}
            /\ procs[i].cmd = "prune" => procs[j].cmd # "check"

\* C10 as stated: whenever the backup subprocess is started, an unlock call
\* of the same run has been issued and has exited before it.
C10_UnlockBeforeBackup ==
    \A j \in 1..Len(procs) :
        procs[j].cmd = "backup" =>
            \E i \in 1..(j - 1) :
                procs[i].cmd = "unlock" /\ procs[i].st = "exited"

\* C11 as stated: a run that ended ends with exit code 0 when the backup (and
\* the maintenance, if attempted) succeeded, and with exit code 1 when the
\* configuration was invalid, the restic binary was missing or the backup
\* step failed.
C11_ExitCode ==
    (pc = "done" /\ h.outcome # "killed") =>
        /\ (h.outcome \in {"finished", "exit0"} /\ h.backupResult = "ok"
              /\ h.maint \in {"none", "ok"}) => exitCodes(h.outcome) = {0}
        /\ (h.cfgInvalid \/ ~h.binary \/ h.backupResult = "fail")
              => exitCodes(h.outcome) = {1}

\* C12: in the node scripts, when the backup subprocess succeeded and the
\* updateState call after it failed to write, the run has emitted the
\* backup-success notification and not the failure one, and it has gone on
\* to the maintenance gate: forget is started exactly when the incremented
\* counter reaches the threshold.
C12_WriteFailureNotFatal ==
    (IsJs /\ h.backupWrite = "failed") =>
        /\ h.backupResult = "ok"
        /\ Notified("backup_ok") \/ Notified("backup_warnings")
        /\ ~Notified("backup_failed")
        /\ h.outcome \notin {"failed", "rejected", "crashed"}
        /\ h.gate = (IF MaintenanceDue(h.gateCnt, Threshold)
                     THEN "entered" ELSE "skipped")
        /\ Started("forget") <=> h.gate = "entered"

C12_Witness ==
    /\ IsJs /\ h.backupWrite = "failed" /\ pc = "done"
    /\ h.gate = "entered" /\ h.maint = "ok" /\ Notified("backup_ok")

\* C13 as stated: in the node scripts the update or version check never
\* gates the backup: a run that made the check and was not killed has
\* started the backup subprocess, whatever the check's outcome (unless the
\* command line could not be built), and the run never waits without end
\* for the network call.
C13_UpdateCheckNeverGates ==
    /\ (IsJs /\ pc = "done" /\ h.updateCheck # "none" /\ h.outcome # "killed"
          /\ ~(h.outcome = "failed" /\ h.backupResult = "none"))
            => Started("backup")
    /\ pc # "hung"

\* C14 as stated: a run whose configuration is invalid (a required option
\* missing, empty or of the wrong type, or a listed path that does not
\* exist) ends in getConfig with exit code 1, and no restic subprocess is
\* started in it.
C14_InvalidConfigFatal ==
    h.cfgInvalid =>
        /\ h.outcome = "exit1"
        /\ exitCodes(h.outcome) = {1}
        /\ procs = <<>>

\* C15 as stated: in the node scripts the backup command counts as a success
\* exactly when its exit code is 0, whether or not it wrote to stderr; a
\* success with at least one stderr chunk yields the 'completed with errors'
\* notification, one without yields the 'successful' notification, a
\* non-zero exit yields the failure notification, and both kinds of success
\* increment the counter.
C15_OutcomeClassification ==
    IsJs =>
        /\ \A i \in 1..Len(procs) :
              (procs[i].cmd = "backup" /\ procs[i].st = "exited") =>
                  /\ procs[i].code = 0 <=> h.backupResult = "ok"
                  /\ procs[i].code # 0 <=> h.backupResult = "fail"
        /\ h.backupResult = "fail" =>
              /\ Notified("backup_failed")
              /\ ~Notified("backup_ok") /\ ~Notified("backup_warnings")
        /\ h.backupResult = "ok" =>
              /\ ~Notified("backup_failed")
              /\ Notified("backup_warnings") <=> h.nErr > 0
              /\ Notified("backup_ok") <=> h.nErr = 0
              /\ h.loaded.cnt.t = "number" /\ h.preMem.cnt.t = "number"
              /\ h.preMem.cnt.v = h.loaded.cnt.v + 1

\* the number of maybe_notify calls of the run that carried message n
TimesNotified(n) == Cardinality({i \in 1..Len(notes) : notes[i] = n})

\* C16: in the node scripts, when the gate passed and forget, prune and check
\* all succeeded, the run started exactly one forget, then one prune, then
\* one check, each after the one before it had exited, forget carried the
\* keep counts of the configuration, and afterwards the counter is 0 and
\* lastKnownPurge and lastKnownCheck are times of this run.
C16_FullMaintenance ==
    /\ (IsJs /\ h.outcome # "killed") =>
          \A i \in 1..(Len(procs) - 1) : procs[i].st = "exited"
    /\ IsJs =>
          \A i \in 1..Len(procs) :
              procs[i].cmd = "forget" => procs[i].args = config.retention
    /\ (IsJs /\ h.maint = "ok") =>
          /\ [i \in 1..Len(procs) |-> procs[i].cmd]
                = <<"backup", "forget", "prune", "check">>
          /\ \A i \in 1..Len(procs) : procs[i].st = "exited" /\ procs[i].code = 0
          /\ h.gate = "entered"
          /\ backupState.cnt = JsNum(0)
          /\ h.startedAt <= backupState.lkp /\ backupState.lkp <= backupState.lkc
          /\ backupState.lkc <= now

C16_Witness ==
    /\ IsJs /\ h.maint = "ok" /\ pc = "done"
    /\ Threshold = 2 /\ runs = 2 /\ config.retention = <<0, 7, 4, 0, 0>>

\* C17: if maintenance was entered in a run and one of its steps failed,
\* then the next run whose backup succeeds passes the gate and starts
\* forget.
C17_FailedMaintenanceRetried ==
    (x.retryDue /\ pc # "idle" /\ h.backupResult = "ok") =>
        /\ Started("forget")
        /\ h.gate = "entered"

C17_Witness ==
    /\ IsJs /\ x.retryDue /\ pc = "done" /\ h.backupResult = "ok"
    /\ Started("forget") /\ Threshold = 2

\* C18: when forget, prune or check failed, the run that ended has emitted
\* exactly one maintenance-failure notification and no maintenance-success
\* notification, it ended as a run without error does, and the
\* backup-success notification of the run stands.
C18_MaintenanceFailureReportedOnce ==
    (pc = "done" /\ h.maint \in MaintenanceFailures) =>
        /\ TimesNotified("maintenance_failed") = 1
        /\ ~Notified("maintenance_ok")
        /\ h.outcome \in {"finished", "exit0"}
        /\ exitCodes(h.outcome) = {0}
        /\ Notified("backup_ok") \/ Notified("backup_warnings")
        /\ ~Notified("backup_failed")

C18_Witness ==
    /\ pc = "done" /\ h.maint = "failedCheck"
    /\ TimesNotified("maintenance_failed") = 1

\* C19 as stated: a run that finds no notification facility (node-notifier
\* does not load, terminal-notifier is not installed) raises no error at
\* start-up or in maybe_notify.
C19_NoNotifierNoError ==
    ~h.notifier => h.outcome # "crashed"

\* C20 as stated: at most one restic subprocess of a run is alive at any
\* time, also when a signal interrupts the wait for a background job.
C20_OneSubprocessAtATime ==
    Cardinality({i \in 1..Len(procs) : Alive(i)}) <= 1

\* the counter is a number, whole and not negative
NonNegativeInteger(c) == c.t = "number" /\ c.v \in Nat

\* C21 as stated: the maintenance counter is a non-negative integer in every
\* reachable state: in memory once the state is loaded, and in the state
\* file once the run has written it after a backup.
C21_CounterNonNegative ==
    /\ (IsJs /\ backupState.kind # "none")
          => NonNegativeInteger(backupState.cnt)
    /\ (IsJs /\ pc = "done" /\ h.backupWrite = "ok")
          => NonNegativeInteger(file.cnt)

\* C22 as stated: within one run the state file is read at most once, and
\* written at most once after the backup and at most once for the whole
\* maintenance sequence.
C22_StateFileAccesses ==
    IsJs =>
        /\ h.reads <= 1
        /\ h.maintWrites <= 1

\* C23 as stated: in unnamed/part_000 the backup command carries the `nice`
\* prefix exactly when beNice is not configured as 0, and a run whose
\* configuration has autoUpdate 0 makes no update attempt.
C23_TogglesHonoured ==
    variant = "js" =>
        /\ \A i \in 1..Len(procs) :
              procs[i].cmd = "backup" =>
                  (procs[i].args = <<"nice">> <=> config.rawBeNice # 0)
        /\ config.rawAutoUpdate = 0 => h.updateCheck \notin {"ok", "failed"}

\* C24: when the node scripts find the restic binary neither in
\* /usr/local/bin nor in the current directory, the process ends with exit
\* code 1 after one notification; the state file has not been read or
\* created and no subprocess has been started.
C24_MissingBinaryFatal ==
    (IsJs /\ ~h.binary) =>
        /\ pc \in {"done", "idle"}
        /\ h.outcome = "exit1" /\ exitCodes(h.outcome) = {1}
        /\ notes = <<"configuration_error">>
        /\ procs = <<>>
        /\ h.reads = 0 /\ backupState.kind = "none"
        /\ (runs = 1 /\ x.fresh) => file.kind = "absent"

C24_Witness ==
    /\ IsJs /\ ~h.binary /\ pc = "done" /\ runs = 1 /\ x.fresh

\* C25 as stated: in the node scripts, once the backup subprocess has
\* succeeded the counter is one more than the loaded one, lastKnownBackup is
\* the start time of the run, the state has been handed to updateState with
\* both changes in it, the success notification has been emitted, and only
\* after all that the gate has been evaluated.
C25_BackupSuccessSequence ==
    (IsJs /\ h.backupResult = "ok") =>
        /\ h.loaded.cnt.t = "number"
        /\ h.preMem.cnt = JsNum(h.loaded.cnt.v + 1)
        /\ h.preMem.lkb = h.startedAt
        /\ h.backupWrite # "none"
        /\ h.backupWrite = "ok" => h.preFile = Stringify(h.preMem)
        /\ Notified("backup_ok") \/ Notified("backup_warnings")
        /\ h.gate # "none"
        /\ \A i, j \in 1..Len(notes) :
              (notes[i] = "maintenance_start"
                 /\ notes[j] \in {"backup_ok", "backup_warnings"}) => j < i

\* C26 as stated: when two processes of the node script run against the
\* same state file with interleaved steps, both backups succeed and are
\* written, and neither process completes maintenance, the counter in the
\* state file ends 2 higher than it started.
C26_NoLostUpdate ==
    (/\ \A p \in 1..2 : /\ peers.proc[p].pc = "done"
                         /\ peers.proc[p].backup = "ok"
                         /\ peers.proc[p].wrote
                         /\ ~peers.proc[p].maintained)
        => file.cnt = JsNum(peers.cnt0 + 2)

\* C27 as stated: once exit_hook of the bash script has run (its `restic
\* unlock` is every unlock after the first subprocess), the run starts no
\* further backup, forget or prune subprocess.
C27_NothingStartedAfterExitHook ==
    variant = "sh" =>
        \A i, j \in 1..Len(procs) :
            (i >= 2 /\ i < j /\ procs[i].cmd = "unlock")
                => procs[j].cmd \notin {"backup", "forget", "prune"}

\* C28 as stated: in the node scripts getUserExcludesForPlatform always
\* hands back an array, so once main has asked for the platform excludes
\* the backup subprocess is started.
C28_ExcludesAlwaysArray ==
    (IsJs /\ h.excludes # "none") =>
        /\ h.excludes = "array"
        /\ \E i \in 1..Len(procs) : procs[i].cmd = "backup"

BackupSubprocessFailed ==
    \E i \in 1..Len(procs) :
        /\ procs[i].cmd = "backup"
        /\ \/ procs[i].st = "killed"
           \/ procs[i].st = "exited" /\ procs[i].code # 0

BackupNotifications ==
    TimesNotified("backup_ok") + TimesNotified("backup_warnings")
        + TimesNotified("backup_failed")

\* C29 as stated: the backup-failure notification is emitted only when the
\* backup subprocess itself failed (never when it was not started or exited
\* with code 0), no run emits more than one backup notification, and a run
\* whose backup step has been handled has emitted exactly one.
C29_FailureNotificationOnlyOnFailure ==
    /\ Notified("backup_failed") => BackupSubprocessFailed
    /\ BackupNotifications <= 1
    /\ h.backupResult # "none" => BackupNotifications = 1

\* counter, lastKnownBackup, lastKnownPurge and lastKnownCheck of a state
RunStateFields(s) == <<s.cnt, s.lkb, s.lkp, s.lkc>>

\* the maintenance sequence never changes lastKnownBackup
MaintenanceKeepsLastKnownBackup ==
    (IsJs /\ h.maint # "none") =>
        /\ backupState.lkb = h.preMem.lkb
        /\ file.lkb \in {h.preMem.lkb, h.preFile.lkb}

\* C30 as stated: after a run of a node script whose backup subprocess
\* failed, the counter, lastKnownBackup, lastKnownPurge and lastKnownCheck
\* in memory and in the state file equal the values loaded at the start of
\* the run; and maintenance never changes lastKnownBackup.
C30_FailedBackupLeavesState ==
    /\ (IsJs /\ h.backupResult = "fail") =>
          /\ RunStateFields(backupState) = RunStateFields(h.loaded)
          /\ RunStateFields(file) = RunStateFields(h.loaded)
    /\ MaintenanceKeepsLastKnownBackup

\* C30 amended: after a run of a node script whose backup subprocess failed,
\* the four fields in memory equal the values loaded at the start of the
\* run, and the state file either holds those same values or is still the
\* empty or unparseable file for which the defaults were loaded; and
\* maintenance never changes lastKnownBackup.
C30_Amended ==
    /\ (IsJs /\ h.backupResult = "fail") =>
          /\ RunStateFields(backupState) = RunStateFields(h.loaded)
          /\ \/ RunStateFields(file) = RunStateFields(h.loaded)
             \/ file.kind \in {"empty", "garbage"}
    /\ MaintenanceKeepsLastKnownBackup

C30_Witness ==
    /\ IsJs /\ pc = "done" /\ h.backupResult = "fail"
    /\ h.loaded.kind = "object" /\ file.kind = "object"
    /\ h.loaded.cnt.t = "number" /\ h.loaded.cnt.v >= 1

\* the last update check loaded at the start of the run lies within the
\* given number of hours
CheckedWithin(hours) ==
    h.loaded.luc # Missing /\ h.startedAt - h.loaded.luc < hours

UpdateAttempted == h.updateCheck \in {"ok", "failed"}

\* C31 as stated: once updateRestic of unnamed/part_000 has returned, it
\* has attempted an update exactly when auto-update is enabled and the last
\* update check of the loaded state is not within the last 24 hours;
\* when it skipped, lastUpdateCheck in memory is the loaded one.
C31_UpdateAfter24Hours ==
    (variant = "js" /\ h.updateCheck # "none") =>
        /\ UpdateAttempted <=> (config.autoUpdate # 0 /\ ~CheckedWithin(24))
        /\ h.updateCheck = "skipped" => backupState.luc = h.loaded.luc

\* the subprocess of the run with this command has exited with status 0
ExitedZero(cmd) ==
    \E i \in 1..Len(procs) :
        procs[i].cmd = cmd /\ procs[i].st = "exited" /\ procs[i].code = 0

\* C32: in the bash script a run whose backup succeeded ends with exactly
\* one maintenance notification, and it is the success one if and only if
\* both the forget and the prune subprocess exited with status 0 (a failed
\* step or a wait that a signal interrupted gives the failure one); no
\* maintenance notification is emitted before the end of the run.
C32_ShMaintenanceNotification ==
    variant = "sh" =>
        /\ (pc = "done" /\ h.backupResult = "ok") =>
              /\ TimesNotified("maintenance_ok")
                    + TimesNotified("maintenance_failed") = 1
              /\ Notified("maintenance_ok")
                    <=> (ExitedZero("forget") /\ ExitedZero("prune"))
        /\ (pc \notin {"done", "idle"}) =>
              /\ ~Notified("maintenance_ok")
              /\ ~Notified("maintenance_failed")

C32_Witness ==
    /\ variant = "sh" /\ pc = "done" /\ h.backupResult = "ok"
    /\ Notified("maintenance_failed")
    /\ ~ExitedZero("forget") /\ ExitedZero("prune")
====
